---- MODULE Spec2Model ----
(***************************************************************************)
(* University of Waikato smart parking: the booking / wallet / spot        *)
(* availability core of the Expo client and its Supabase schema.           *)
(*                                                                         *)
(* Time is counted in ticks of half an hour (HourTicks ticks per hour).    *)
(* Money is counted in whole dollars (the hourly price is $1).             *)
(* One user is signed in on every device of Devices; each device has its   *)
(* own WalletProvider (in-memory balance), its own AsyncStorage and its    *)
(* own map screen and bookings screen, all of them talking to the same     *)
(* Supabase tables.                                                        *)
(***************************************************************************)
EXTENDS Integers, FiniteSets, Sequences, TLC

\* ---------------------------------------------------------------- bounds
MaxTime == 4
MaxAttempts == 2
MaxBalance == 2

\* ------------------------------------------------------ program constants
HourTicks == 2
basePrice == 1
cancelNoticeHours == 2

Devices == {"d1", "d2"}
Spots == {"X", "Y"}
NoSpot == "none"
NoValue == -1

\* Cards saved at most, per store.
MaxCards == 2

\* Start times the pickers can produce (minutes are always set to 0) and the
\* end times offered around them.
MaxLen == 3
StartTimes == {t \in 0..MaxTime : t % HourTicks = 0}
EndTimes(start) == {e \in 0..(MaxTime + MaxLen) : e - start \in (-1)..MaxLen}
AddAmounts == {0, 1, 2}
DeductAmounts == {0, 1, 2}
LedgerAmounts == {-1, 0, 1, 2}
Payers == {"d1"}
WalletStarts == {HourTicks}

\* Card numbers typed into the card form: 16 digits.
CardNumber(a, b) == [i \in 1..16 |-> IF i <= 12 THEN a ELSE b]
CardNumbers == {CardNumber(4, 1), CardNumber(5, 2)}

VARIABLES
  now,                  \* the clock, in ticks
  bookings,             \* table bookings: set of rows
  nextId,               \* number of rows inserted so far + 1 (row ids)
  attempts,             \* number of processPayment calls that passed validation
  is_available,         \* table parking_spots: column is_available
  wallet_balance,       \* table users: column wallet_balance of the user
  wallet_transactions,  \* table wallet_transactions: rows of the user
  asyncStorage,         \* per device: AsyncStorage item wallet_<user>
  balance,              \* per device: WalletProvider state `balance`
  wop,                  \* per device: the addFunds/deductFunds call in flight
  settled,              \* signed sum of the amounts of the calls that returned true
  pay,                  \* per device: the processPayment invocation in flight
  spots,                \* per device: map screen state `spots` (is_available copy)
  modal,                \* per device: selectedSpot while the payment modal is open
  processing,           \* per device: map screen state `processing`
  quote,                \* per device: the window and total the payment modal shows
  list,                 \* per device: bookings screen state `bookings` (local copy)
  dialog,               \* per device: bookings screen, the open confirmation
                        \* dialog and the last alert shown
  saved_cards,          \* table saved_cards: set of rows
  secureStore,          \* per device: SecureStore item saved_cards_<user>
  topup                 \* per device: the handleTopUp invocation in flight

vars == <<now, bookings, nextId, attempts, is_available, wallet_balance,
          wallet_transactions, asyncStorage, balance, wop, settled, pay,
          spots, modal, processing, quote, list, dialog, saved_cards,
          secureStore, topup>>

dbVars == <<bookings, nextId, is_available>>
walletVars == <<wallet_balance, asyncStorage, balance, wop, settled>>
screenVars == <<pay, spots, modal, processing, attempts>>
cardVars == <<saved_cards, secureStore>>
otherScreens == <<quote, list, dialog, cardVars>>

\* ------------------------------------------------------- pure functions

\* Math.ceil(a / b) for b > 0 (also for negative a).
Ceil(a, b) == -((-a) \div b)

\* Mutant of calculatePrice: the started hour is dropped (Math.floor).
calculatePrice_floor(start, end) == ((end - start) \div HourTicks) * basePrice

\* calculatePrice: Math.ceil(hoursDiff) * basePrice; the toFixed(2) /
\* parseFloat round trip of the caller is exact on whole dollars.
calculatePrice(start, end) == Ceil(end - start, HourTicks) * basePrice

\* now with minutes, seconds and milliseconds set to 0.
roundedNow(t) == (t \div HourTicks) * HourTicks

\* getNextHour: the hour after the current one, on the hour.
getNextHour(t) == roundedNow(t) + HourTicks

ActiveStatus == {"pending", "confirmed"}

\* The value update_spot_availability writes for a spot.
CurrentlyFree(bks, spot, t) ==
  ~ \E b \in bks : /\ b.spot = spot
                   /\ b.status \in ActiveStatus
                   /\ b.start <= t
                   /\ b.end > t

\* Trigger update_spot_availability, fired for a changed row of `spot`.
update_spot_availability(flags, bks, spot, t) ==
  [flags EXCEPT ![spot] = CurrentlyFree(bks, spot, t)]

\* Mutant of check_spot_availability: the status of the rows is not looked at.
check_spot_availability_all(bks, spot_uuid, check_start, check_end) ==
  ~ \E b \in bks :
      /\ b.spot = spot_uuid
      /\ \/ (b.start <= check_start /\ b.end > check_start)
         \/ (b.start < check_end /\ b.end >= check_end)
         \/ (b.start >= check_start /\ b.end <= check_end)

\* Mutant of check_spot_availability: a booking that ends exactly at
\* check_start counts as a conflict.
check_spot_availability_closed(bks, spot_uuid, check_start, check_end) ==
  ~ \E b \in bks :
      /\ b.spot = spot_uuid
      /\ b.status \in {"pending", "confirmed"}
      /\ \/ (b.start <= check_start /\ b.end >= check_start)
         \/ (b.start < check_end /\ b.end >= check_end)
         \/ (b.start >= check_start /\ b.end <= check_end)

\* Function check_spot_availability of the database, on the rows bks.
check_spot_availability(bks, spot_uuid, check_start, check_end) ==
  ~ \E b \in bks :
      /\ b.spot = spot_uuid
      /\ b.status \in {"pending", "confirmed"}
      /\ \/ (b.start <= check_start /\ b.end > check_start)
         \/ (b.start < check_end /\ b.end >= check_end)
         \/ (b.start >= check_start /\ b.end <= check_end)

\* loadWalletBalance: Supabase first, AsyncStorage as fallback, else 0.
loadWalletBalance(d, supaOk, asOk) ==
  IF supaOk THEN wallet_balance
  ELSE IF asOk THEN (IF asyncStorage[d] = NoValue THEN 0 ELSE asyncStorage[d])
  ELSE 0

\* A wallet call: at rest (with the value the last call returned), awaiting
\* saveBalanceToStorage ("save") or awaiting the reload of its catch block
\* ("reload").
IdleOp == [pc |-> "idle", kind |-> "none", amount |-> 0, newBalance |-> 0,
           caller |-> "none", ret |-> "none"]

Returned(ok) == [IdleOp EXCEPT !.ret = IF ok THEN "true" ELSE "false"]

Rejected(kind, amount) ==
  [IdleOp EXCEPT !.kind = kind, !.amount = amount, !.ret = "false"]

Saving(kind, amount, newBalance, caller) ==
  [pc |-> "save", kind |-> kind, amount |-> amount,
   newBalance |-> newBalance, caller |-> caller, ret |-> "none"]

\* A processPayment invocation: at rest (with the alert the last one ended
\* with), awaiting deductFunds ("deduct"), the card payment ("card") or the
\* insert into bookings ("insert").
IdlePay(res) == [pc |-> "idle", spot |-> NoSpot, start |-> 0, end |-> 0,
                 amount |-> 0, useWallet |-> FALSE, balBefore |-> 0,
                 since |-> 0, result |-> res]

\* The success alert names the amount paid and the payment method.
Booked(p) == [IdlePay("Success") EXCEPT !.amount = p.amount,
                                        !.useWallet = p.useWallet]

\* A handleTopUp invocation: at rest (with the alert the last one ended
\* with), awaiting saveCard ("save"), the simulated payment ("charge") or
\* addFunds ("add"); `save` is the option saveCardDetails, `saved` tells
\* that its saveCard stored a card.
IdleTopUp(res) == [pc |-> "idle", amount |-> 0, save |-> FALSE,
                   saved |-> FALSE, result |-> res]

\* The payment modal's summary: nothing shown, or a window and its total.
NoQuote == [start |-> 0, end |-> 0, total |-> 0]

\* The bookings screen: no confirmation dialog open, `alert` the last alert.
NoDialog(alert) == [kind |-> "none", id |-> 0, alert |-> alert]

\* ------------------------------------------------------------------ Init
Init ==
  /\ now = 0
  /\ bookings = {}
  /\ nextId = 1
  /\ attempts = 0
  /\ is_available = [sp \in Spots |-> TRUE]
  /\ wallet_balance = 0
  /\ wallet_transactions = <<>>
  /\ asyncStorage = [d \in Devices |-> NoValue]
  /\ balance = [d \in Devices |-> 0]
  /\ wop = [d \in Devices |-> IdleOp]
  /\ settled = 0
  /\ pay = [d \in Devices |-> IdlePay("none")]
  /\ spots = [d \in Devices |-> [sp \in Spots |-> TRUE]]
  /\ modal = [d \in Devices |-> NoSpot]
  /\ processing = [d \in Devices |-> FALSE]
  /\ quote = [d \in Devices |-> NoQuote]
  /\ list = [d \in Devices |-> {}]
  /\ dialog = [d \in Devices |-> NoDialog("none")]
  /\ saved_cards = {}
  /\ secureStore = [d \in Devices |-> <<>>]
  /\ topup = [d \in Devices |-> IdleTopUp("none")]

\* ----------------------------------------------------------------- clock
Tick ==
  /\ now < MaxTime
  /\ now' = now + 1
  /\ UNCHANGED <<dbVars, walletVars, wallet_transactions, topup, screenVars>>
  /\ UNCHANGED otherScreens

\* ---------------------------------------------------------------- wallet

\* refreshBalance / the provider's effect: reload the in-memory balance.
refreshBalance(d, supaOk, asOk) ==
  /\ wop[d].pc = "idle"
  /\ pay[d].pc = "idle"
  /\ balance' = [balance EXCEPT ![d] = loadWalletBalance(d, supaOk, asOk)]
  /\ UNCHANGED <<now, dbVars, wallet_balance, wallet_transactions, topup,
                 asyncStorage, wop, settled, screenVars>>
  /\ UNCHANGED otherScreens

\* Mutant of addFunds: the amount is not compared with zero.
addFunds_unguarded(d, amount) ==
  /\ wop[d].pc = "idle"
  /\ pay[d].pc = "idle"
  /\ balance[d] + amount <= MaxBalance
  /\ settled + amount <= MaxBalance
  /\ balance' = [balance EXCEPT ![d] = balance[d] + amount]
  /\ wop' = [wop EXCEPT ![d] =
       Saving("add", amount, balance[d] + amount, "app")]
  /\ UNCHANGED <<now, dbVars, wallet_balance, wallet_transactions, topup,
                 asyncStorage, settled, screenVars>>
  /\ UNCHANGED otherScreens

\* addFunds up to its first await: guard, optimistic setBalance.
addFunds(d, amount) ==
  /\ wop[d].pc = "idle"
  /\ pay[d].pc = "idle"
  /\ balance[d] + amount <= MaxBalance
  /\ settled + amount <= MaxBalance
  /\ IF amount <= 0
       THEN /\ wop' = [wop EXCEPT ![d] = Rejected("add", amount)]
            /\ UNCHANGED balance
       ELSE /\ balance' = [balance EXCEPT ![d] = balance[d] + amount]
            /\ wop' = [wop EXCEPT ![d] =
                 Saving("add", amount, balance[d] + amount, "app")]
  /\ UNCHANGED <<now, dbVars, wallet_balance, wallet_transactions, topup,
                 asyncStorage, settled, screenVars>>
  /\ UNCHANGED otherScreens

\* Mutant of debited: the amount is taken off twice.
debited_twice(bal, amount) == bal - 2 * amount

\* newBalance of deductFunds.
debited(bal, amount) == bal - amount

\* Mutant of deductFunds: the balance is not compared with the amount.
deductFunds_unchecked(d, amount) ==
  IF amount <= 0 THEN "invalid" ELSE "saving"

\* The guards of deductFunds, as seen by its caller: "invalid" and
\* "insufficient" return false at once, "saving" goes on to the optimistic
\* setBalance and saveBalanceToStorage.
deductFunds(d, amount) ==
  IF amount <= 0 THEN "invalid"
  ELSE IF balance[d] < amount THEN "insufficient"
  ELSE "saving"

\* deductFunds called through the wallet context, up to its first await.
deductFundsCall(d, amount) ==
  /\ wop[d].pc = "idle"
  /\ pay[d].pc = "idle"
  /\ settled - amount >= -MaxBalance
  /\ IF deductFunds(d, amount) = "saving"
       THEN /\ balance' = [balance EXCEPT ![d] = debited(balance[d], amount)]
            /\ wop' = [wop EXCEPT ![d] =
                 Saving("deduct", amount, debited(balance[d], amount), "app")]
       ELSE /\ wop' = [wop EXCEPT ![d] = Rejected("deduct", amount)]
            /\ UNCHANGED balance
  /\ UNCHANGED <<now, dbVars, wallet_balance, wallet_transactions, topup,
                 asyncStorage, settled, screenVars>>
  /\ UNCHANGED otherScreens

\* Mutant of Resolve: processPayment goes on to the insert whatever
\* deductFunds returned.
Resolve_ignored(d, ok) ==
  IF wop[d].caller = "pay"
    THEN /\ pay' = [pay EXCEPT ![d] = [pay[d] EXCEPT !.pc = "insert"]]
         /\ UNCHANGED <<processing, topup>>
  ELSE IF wop[d].caller = "topup"
    THEN /\ topup' = [topup EXCEPT ![d] =
               IdleTopUp(IF ok THEN "Successful" ELSE "Error")]
         /\ UNCHANGED <<pay, processing>>
    ELSE UNCHANGED <<pay, processing, topup>>

\* What processPayment does when the deductFunds it awaits resolves, and
\* what handleTopUp does when its addFunds resolves; other callers only look
\* at the returned value.
Resolve(d, ok) ==
  IF wop[d].caller = "pay"
    THEN /\ pay' = [pay EXCEPT ![d] =
               IF ok THEN [pay[d] EXCEPT !.pc = "insert"]
                     ELSE IdlePay("PaymentFailed")]
         /\ processing' = [processing EXCEPT ![d] = IF ok THEN @ ELSE FALSE]
         /\ UNCHANGED topup
  ELSE IF wop[d].caller = "topup"
    THEN /\ topup' = [topup EXCEPT ![d] =
               IdleTopUp(IF ok THEN "Successful" ELSE "Error")]
         /\ UNCHANGED <<pay, processing>>
    ELSE UNCHANGED <<pay, processing, topup>>

\* saveBalanceToStorage: update users.wallet_balance (CHECK wallet_balance
\* >= 0), then AsyncStorage; a failure of either falls back to AsyncStorage
\* alone and only a failure of that fallback is rethrown.
saveBalanceToStorage(d, supaOk, asOk1, asOk2) ==
  /\ wop[d].pc = "save"
  /\ LET nb == wop[d].newBalance
         dbOk == supaOk /\ nb >= 0
         stored == IF dbOk THEN asOk1 \/ asOk2 ELSE asOk2
         signed == IF wop[d].kind = "add" THEN wop[d].amount ELSE -wop[d].amount
     IN /\ wallet_balance' = IF dbOk THEN nb ELSE wallet_balance
        /\ asyncStorage' = IF stored THEN [asyncStorage EXCEPT ![d] = nb]
                                     ELSE asyncStorage
        /\ IF stored
             THEN /\ wop' = [wop EXCEPT ![d] = Returned(TRUE)]
                  /\ settled' = settled + signed
                  /\ Resolve(d, TRUE)
             ELSE /\ wop' = [wop EXCEPT ![d].pc = "reload"]
                  /\ UNCHANGED <<settled, pay, processing, topup>>
  /\ UNCHANGED <<now, dbVars, wallet_transactions, balance, spots, modal,
                 attempts>>
  /\ UNCHANGED otherScreens

\* The catch block of addFunds / deductFunds: reload, return false.
revertBalance(d, supaOk, asOk) ==
  /\ wop[d].pc = "reload"
  /\ balance' = [balance EXCEPT ![d] = loadWalletBalance(d, supaOk, asOk)]
  /\ wop' = [wop EXCEPT ![d] = Returned(FALSE)]
  /\ Resolve(d, FALSE)
  /\ UNCHANGED <<now, dbVars, wallet_balance, wallet_transactions,
                 asyncStorage, settled, spots, modal, attempts>>
  /\ UNCHANGED otherScreens

\* ------------------------------------------------------------ map screen

\* fetchSpots: reload the local copy of parking_spots.
fetchSpots(d) ==
  /\ spots' = [spots EXCEPT ![d] = is_available]
  /\ UNCHANGED <<now, dbVars, walletVars, wallet_transactions, topup, pay, modal,
                 processing, attempts>>
  /\ UNCHANGED otherScreens

\* Mutant of showPaymentModal: the modal opens for any spot.
showPaymentModal_any(d, spot) ==
  /\ modal[d] = NoSpot
  /\ modal' = [modal EXCEPT ![d] = spot]
  /\ UNCHANGED <<now, dbVars, walletVars, wallet_transactions, topup, pay, spots,
                 processing, attempts>>
  /\ UNCHANGED otherScreens

\* onSpotPress / Book Now: the payment modal opens for an available spot.
showPaymentModal(d, spot) ==
  /\ modal[d] = NoSpot
  /\ spots[d][spot]
  /\ modal' = [modal EXCEPT ![d] = spot]
  /\ UNCHANGED <<now, dbVars, walletVars, wallet_transactions, topup, pay, spots,
                 processing, attempts>>
  /\ UNCHANGED otherScreens

closePaymentModal(d) ==
  /\ modal[d] # NoSpot
  /\ modal' = [modal EXCEPT ![d] = NoSpot]
  /\ processing' = [processing EXCEPT ![d] = FALSE]
  /\ UNCHANGED <<now, dbVars, walletVars, wallet_transactions, topup, pay, spots,
                 attempts>>
  /\ UNCHANGED otherScreens

\* The summary of the payment modal: 'Total Price: $' calculatePrice(startDate,
\* endDate), rendered for the window the pickers hold.
renderTotal(d, start, end) ==
  /\ modal[d] # NoSpot
  /\ quote' = [quote EXCEPT ![d] = [start |-> start, end |-> end,
                                    total |-> calculatePrice(start, end)]]
  /\ UNCHANGED <<now, dbVars, walletVars, wallet_transactions, topup, screenVars,
                 list, dialog>>
  /\ UNCHANGED cardVars

\* The time validation of processPayment.
validWindow(start, end, t) ==
  /\ ~(start < roundedNow(t))
  /\ ~(end <= start)
  /\ ~(end < start + HourTicks)

\* Mutant of paymentBranch: a wallet shortfall falls through to the card.
paymentBranch_fallback(d, useWallet, bookingAmount) ==
  IF useWallet /\ balance[d] >= bookingAmount THEN "wallet" ELSE "card"

\* The choice of the payment path in processPayment.
paymentBranch(d, useWallet, bookingAmount) ==
  IF useWallet /\ balance[d] >= bookingAmount THEN "wallet"
  ELSE IF useWallet /\ balance[d] < bookingAmount THEN "short"
  ELSE "card"

\* processPayment up to its first await. At most one invocation per device
\* is followed at a time.
processPayment(d, start, end, useWallet, cardOk) ==
  /\ modal[d] # NoSpot
  /\ ~processing[d]
  /\ pay[d].pc = "idle"
  /\ wop[d].pc = "idle"
  /\ attempts < MaxAttempts
  /\ LET bookingAmount == calculatePrice(start, end)
         branch == paymentBranch(d, useWallet, bookingAmount)
         req == [pc |-> "idle", spot |-> modal[d], start |-> start,
                 end |-> end, amount |-> bookingAmount,
                 useWallet |-> useWallet, balBefore |-> balance[d],
                 since |-> nextId, result |-> "none"]
     IN IF ~validWindow(start, end, now)
          THEN /\ pay' = [pay EXCEPT ![d] = IdlePay("InvalidWindow")]
               /\ UNCHANGED <<balance, wop, processing, attempts>>
          ELSE /\ attempts' = attempts + 1
               /\ IF branch = "wallet" /\ deductFunds(d, bookingAmount) = "saving"
                    THEN /\ balance' = [balance EXCEPT ![d] =
                                          debited(balance[d], bookingAmount)]
                         /\ wop' = [wop EXCEPT ![d] =
                              Saving("deduct", bookingAmount,
                                     debited(balance[d], bookingAmount), "pay")]
                         /\ pay' = [pay EXCEPT ![d] = [req EXCEPT !.pc = "deduct"]]
                         /\ processing' = [processing EXCEPT ![d] = TRUE]
                  ELSE IF branch = "wallet"
                    THEN /\ pay' = [pay EXCEPT ![d] = IdlePay("PaymentFailed")]
                         /\ wop' = [wop EXCEPT ![d] = Rejected("deduct", bookingAmount)]
                         /\ UNCHANGED <<balance, processing>>
                  ELSE IF branch = "short"
                    THEN /\ pay' = [pay EXCEPT ![d] = IdlePay("InsufficientBalance")]
                         /\ UNCHANGED <<balance, wop, processing>>
                  ELSE IF ~cardOk
                    THEN /\ pay' = [pay EXCEPT ![d] = IdlePay("CardRejected")]
                         /\ UNCHANGED <<balance, wop, processing>>
                    ELSE /\ pay' = [pay EXCEPT ![d] = [req EXCEPT !.pc = "card"]]
                         /\ processing' = [processing EXCEPT ![d] = TRUE]
                         /\ UNCHANGED <<balance, wop>>
  /\ UNCHANGED <<now, dbVars, wallet_balance, wallet_transactions, topup,
                 asyncStorage, settled, spots, modal>>
  /\ UNCHANGED otherScreens

\* cardNumber.slice(-4)
last4(number) == SubSeq(number, Len(number) - 3, Len(number))

\* newCard of savePaymentDetails (map screen); the CVV is left out.
newCard(number, t) ==
  [id |-> t, number |-> number, last4 |-> last4(number), brand |-> "visa",
   expiryDate |-> "12/30", cardHolderName |-> "holder",
   expiry |-> "12/30", name |-> "holder"]

\* savePaymentDetails: the SecureStore list with newCard put first, unless a
\* card with the same last 4 digits and expiry is there; at most 5 are kept.
savePaymentDetails(cards, number, t) ==
  IF \E i \in 1..Len(cards) :
       /\ cards[i].last4 = last4(number)
       /\ cards[i].expiryDate = newCard(number, t).expiryDate
    THEN cards
    ELSE SubSeq(<<newCard(number, t)>> \o cards, 1,
                IF Len(cards) + 1 > 5 THEN 5 ELSE Len(cards) + 1)

\* The simulated card payment resolves: paymentSuccess = true, and the new
\* card is saved if the user asked for it.
cardPayment(d, save, number) ==
  /\ pay[d].pc = "card"
  /\ pay' = [pay EXCEPT ![d].pc = "insert"]
  /\ secureStore' = IF save
       THEN [secureStore EXCEPT ![d] = savePaymentDetails(@, number, now)]
       ELSE secureStore
  /\ UNCHANGED <<now, dbVars, walletVars, wallet_transactions, topup, spots, modal,
                 processing, attempts>>
  /\ UNCHANGED <<quote, list, dialog, saved_cards>>

\* The row processPayment inserts into bookings.
bookingRow(id, p) ==
  [id |-> id, spot |-> p.spot, start |-> p.start, end |-> p.end,
   status |-> "confirmed"]

\* supabase.from('bookings').insert(...) and what follows it: on success the
\* trigger, closePaymentModal and fetchSpots; on error the catch block.
insertBooking(d, insOk) ==
  /\ pay[d].pc = "insert"
  /\ IF insOk
       THEN LET row == bookingRow(nextId, pay[d])
                flags == update_spot_availability(is_available,
                           bookings \cup {row}, row.spot, now)
            IN /\ bookings' = bookings \cup {row}
               /\ nextId' = nextId + 1
               /\ is_available' = flags
               /\ pay' = [pay EXCEPT ![d] = Booked(pay[d])]
               /\ modal' = [modal EXCEPT ![d] = NoSpot]
               /\ spots' = [spots EXCEPT ![d] = flags]
       ELSE /\ pay' = [pay EXCEPT ![d] = IdlePay("Error")]
            /\ UNCHANGED <<dbVars, modal, spots>>
  /\ processing' = [processing EXCEPT ![d] = FALSE]
  /\ UNCHANGED <<now, walletVars, wallet_transactions, topup, attempts>>
  /\ UNCHANGED otherScreens

\* ----------------------------------------------------------- top-up screen

\* getCardBrand: the brand is read off the first digit.
getCardBrand(number) ==
  IF number[1] = 4 THEN "Visa"
  ELSE IF number[1] = 5 THEN "Mastercard"
  ELSE IF number[1] = 3 THEN "Amex"
  ELSE "Card"

\* newCard of saveCard (top-up screen), with its legacy fields.
topupCard(number, t) ==
  [id |-> t, last4 |-> last4(number), brand |-> getCardBrand(number),
   expiryDate |-> "12/30", cardHolderName |-> "holder",
   number |-> number, expiry |-> "12/30", name |-> "holder"]

\* The row saveCard inserts into saved_cards.
savedCardRow(id, number) ==
  [id |-> id, last4 |-> last4(number), brand |-> getCardBrand(number),
   expiry_date |-> "12/30", cardholder_name |-> "holder"]

\* The amounts the top-up button lets through (it is disabled at 0).
TopUpAmounts == {1, 2}

\* handleTopUp up to its first await: the card details are validated, then
\* saveCard is called if the user asked to save the new card.
handleTopUp(d, amount, save, cardOk) ==
  /\ topup[d].pc = "idle"
  /\ wop[d].pc = "idle"
  /\ pay[d].pc = "idle"
  /\ IF amount <= 0
       THEN topup' = [topup EXCEPT ![d] = IdleTopUp("InvalidAmount")]
     ELSE IF ~cardOk
       THEN topup' = [topup EXCEPT ![d] = IdleTopUp("InvalidCard")]
       ELSE topup' = [topup EXCEPT ![d] =
              [pc |-> IF save THEN "save" ELSE "charge", amount |-> amount,
               save |-> save, saved |-> FALSE, result |-> "none"]]
  /\ UNCHANGED <<now, dbVars, walletVars, wallet_transactions, screenVars>>
  /\ UNCHANGED otherScreens

\* The simulated payment of handleTopUp resolves and addFunds is called, up
\* to its first await.
topUpCharge(d) ==
  /\ topup[d].pc = "charge"
  /\ wop[d].pc = "idle"
  /\ balance[d] + topup[d].amount <= MaxBalance
  /\ settled + topup[d].amount <= MaxBalance
  /\ balance' = [balance EXCEPT ![d] = balance[d] + topup[d].amount]
  /\ wop' = [wop EXCEPT ![d] =
       Saving("add", topup[d].amount, balance[d] + topup[d].amount, "topup")]
  /\ topup' = [topup EXCEPT ![d].pc = "add"]
  /\ UNCHANGED <<now, dbVars, wallet_balance, wallet_transactions,
                 asyncStorage, settled, screenVars>>
  /\ UNCHANGED otherScreens

\* saveCard, called by handleTopUp when the user asked to save a new card:
\* insert into saved_cards, and on error append newCard to SecureStore.
saveCard(d, number, supaOk) ==
  /\ topup[d].pc = "save"
  /\ topup' = [topup EXCEPT ![d].pc = "charge", ![d].saved = TRUE]
  /\ IF supaOk
       THEN /\ Cardinality(saved_cards) < MaxCards
            /\ saved_cards' = saved_cards \cup
                 {savedCardRow(Cardinality(saved_cards) + 1, number)}
            /\ UNCHANGED secureStore
       ELSE /\ Len(secureStore[d]) < MaxCards
            /\ secureStore' = [secureStore EXCEPT ![d] =
                 Append(@, topupCard(number, now))]
            /\ UNCHANGED saved_cards
  /\ UNCHANGED <<now, dbVars, walletVars, wallet_transactions, screenVars,
                 quote, list, dialog>>

\* -------------------------------------------------------- bookings screen

\* fetchBookings (mount, pull to refresh, the realtime subscription): the
\* local copy of the user's bookings is replaced by the table's rows.
fetchBookings(d) ==
  /\ list' = [list EXCEPT ![d] = bookings]
  /\ UNCHANGED <<now, dbVars, walletVars, wallet_transactions, topup, screenVars,
                 quote, dialog>>
  /\ UNCHANGED cardVars

\* hoursUntilStart of cancelBooking (in ticks), from the local copy's row.
hoursUntilStart(b, t) == b.start - t

\* The policy check of cancelBooking: not (hoursUntilStart < 2).
cancelAllowed(b, t) == ~(hoursUntilStart(b, t) < cancelNoticeHours * HourTicks)

\* cancelBooking: the Cancel Booking button of a row the local copy shows as
\* confirmed; checks the policy and opens the confirmation dialog.
cancelBooking(d, id) ==
  /\ dialog[d].kind = "none"
  /\ \E b \in list[d] :
       /\ b.id = id
       /\ b.status = "confirmed"
       /\ dialog' = [dialog EXCEPT ![d] =
            IF cancelAllowed(b, now)
              THEN [kind |-> "cancel", id |-> id, alert |-> "none"]
              ELSE NoDialog("CannotCancel")]
  /\ UNCHANGED <<now, dbVars, walletVars, wallet_transactions, topup, screenVars,
                 quote, list>>
  /\ UNCHANGED cardVars

\* 'No' on a confirmation dialog.
dismissDialog(d) ==
  /\ dialog[d].kind # "none"
  /\ dialog' = [dialog EXCEPT ![d] = NoDialog("none")]
  /\ UNCHANGED <<now, dbVars, walletVars, wallet_transactions, topup, screenVars,
                 quote, list>>
  /\ UNCHANGED cardVars

\* Mutant of canceledRow: a row that is already canceled is confirmed again.
canceledRow_toggle(b) ==
  [b EXCEPT !.status = IF @ = "canceled" THEN "confirmed" ELSE "canceled"]

\* update({ status: 'canceled' }) applied to a row.
canceledRow(b) == [b EXCEPT !.status = "canceled"]

\* The rows of the table after UPDATE ... WHERE id = id.
updateStatus(bks, id) == {IF b.id = id THEN canceledRow(b) ELSE b : b \in bks}

\* Mutant of triggerFor: the flag of every spot is recomputed.
triggerFor_all(flags, bks, after, id) ==
  [sp \in Spots |-> CurrentlyFree(after, sp, now)]

\* The flags after the row trigger fired for every row `id` names in bks.
triggerFor(flags, bks, after, id) ==
  [sp \in Spots |->
     IF \E b \in bks : b.id = id /\ b.spot = sp
       THEN CurrentlyFree(after, sp, now)
       ELSE flags[sp]]

\* Mutant of handleCancellation: the price of the canceled booking is
\* credited back to the wallet.
handleCancellation_refund(d, updOk) ==
  /\ dialog[d].kind = "cancel"
  /\ updOk
  /\ \E b \in bookings :
       /\ b.id = dialog[d].id
       /\ balance' = [balance EXCEPT ![d] = @ + calculatePrice(b.start, b.end)]
       /\ wallet_balance' = wallet_balance + calculatePrice(b.start, b.end)
  /\ bookings' = updateStatus(bookings, dialog[d].id)
  /\ is_available' = triggerFor(is_available, bookings, bookings', dialog[d].id)
  /\ list' = [list EXCEPT ![d] = bookings']
  /\ dialog' = [dialog EXCEPT ![d] = NoDialog("Success")]
  /\ UNCHANGED <<now, nextId, wallet_transactions, topup, asyncStorage, wop, settled,
                 screenVars, quote>>
  /\ UNCHANGED cardVars

\* handleCancellation ('Yes' on the cancel dialog): the update, its trigger,
\* the alert and fetchBookings; on error only the alert.
handleCancellation(d, updOk) ==
  /\ dialog[d].kind = "cancel"
  /\ IF updOk
       THEN LET after == updateStatus(bookings, dialog[d].id)
            IN /\ bookings' = after
               /\ is_available' =
                    triggerFor(is_available, bookings, after, dialog[d].id)
               /\ list' = [list EXCEPT ![d] = after]
               /\ dialog' = [dialog EXCEPT ![d] = NoDialog("Success")]
       ELSE /\ dialog' = [dialog EXCEPT ![d] = NoDialog("Error")]
            /\ UNCHANGED <<bookings, is_available, list>>
  /\ UNCHANGED <<now, nextId, walletVars, wallet_transactions, topup, screenVars,
                 quote>>
  /\ UNCHANGED cardVars

\* Mutant of canDeleteBooking: a confirmed booking may be deleted too.
canDeleteBooking_any(b) == b.status # "pending"

\* canDeleteBooking / the guard of handleDeleteBooking.
canDeleteBooking(b) == b.status = "canceled" \/ b.status = "completed"

\* handleDeleteBooking (long press on a row of the local copy) up to its
\* confirmation dialog.
handleDeleteBooking(d, id) ==
  /\ dialog[d].kind = "none"
  /\ \E b \in list[d] :
       /\ b.id = id
       /\ dialog' = [dialog EXCEPT ![d] =
            IF canDeleteBooking(b)
              THEN [kind |-> "delete", id |-> id, alert |-> "none"]
              ELSE NoDialog("CannotDelete")]
  /\ UNCHANGED <<now, dbVars, walletVars, wallet_transactions, topup, screenVars,
                 quote, list>>
  /\ UNCHANGED cardVars

\* 'Yes' on the delete dialog: delete().eq('id', bookingId). The migrations
\* define no DELETE policy on bookings, so under row level security the
\* statement removes no row and reports no error ("filtered"); a database
\* with such a policy removes the row ("removed"); "error" is a failed call.
deleteBooking(d, outcome) ==
  /\ dialog[d].kind = "delete"
  /\ LET id == dialog[d].id
         after == {b \in bookings : b.id # id}
     IN IF outcome = "removed"
          THEN /\ bookings' = after
               /\ is_available' = triggerFor(is_available, bookings, after, id)
               /\ list' = [list EXCEPT ![d] = {b \in list[d] : b.id # id}]
               /\ dialog' = [dialog EXCEPT ![d] = NoDialog("Deleted")]
        ELSE IF outcome = "filtered"
          THEN /\ list' = [list EXCEPT ![d] = {b \in list[d] : b.id # id}]
               /\ dialog' = [dialog EXCEPT ![d] = NoDialog("Deleted")]
               /\ UNCHANGED <<bookings, is_available>>
          ELSE /\ list' = [list EXCEPT ![d] = bookings]
               /\ dialog' = [dialog EXCEPT ![d] = NoDialog("Error")]
               /\ UNCHANGED <<bookings, is_available>>
  /\ UNCHANGED <<now, nextId, walletVars, wallet_transactions, topup, screenVars,
                 quote>>
  /\ UNCHANGED cardVars

DeleteOutcomes == {"removed", "filtered", "error"}

\* ------------------------------------------------- the bookings table

\* Statements on the table bookings, whichever client issues them; the row
\* trigger update_spot_availability_trigger is part of each.

\* Values of the enum booking_status.
booking_status == {"pending", "confirmed", "completed", "canceled"}

\* start_time and end_time of the rows the statements write.
SqlTimes == 0 .. MaxTime
SqlIds == {1, 2}

\* INSERT INTO bookings: one row, then the trigger for NEW.spot_id.
sqlInsert(spot, start, end, status) ==
  /\ nextId \in SqlIds
  /\ LET row == [id |-> nextId, spot |-> spot, start |-> start, end |-> end,
                 status |-> status]
         after == bookings \cup {row}
     IN /\ bookings' = after
        /\ is_available' =
             update_spot_availability(is_available, after, spot, now)
  /\ nextId' = nextId + 1
  /\ UNCHANGED <<now, walletVars, wallet_transactions, topup, screenVars>>
  /\ UNCHANGED otherScreens

\* UPDATE bookings SET status = ... WHERE id = id: the trigger fires for the
\* row the statement names, if there is one.
sqlUpdate(id, status) ==
  /\ \E b \in bookings : b.id = id /\ b.status # status
  /\ LET after == {IF b.id = id THEN [b EXCEPT !.status = status] ELSE b :
                     b \in bookings}
     IN /\ bookings' = after
        /\ is_available' = triggerFor(is_available, bookings, after, id)
  /\ UNCHANGED <<now, nextId, walletVars, wallet_transactions, topup, screenVars>>
  /\ UNCHANGED otherScreens

\* DELETE FROM bookings WHERE id = id, then the trigger for OLD.spot_id.
sqlDelete(id) ==
  /\ \E b \in bookings : b.id = id
  /\ LET after == {b \in bookings : b.id # id}
     IN /\ bookings' = after
        /\ is_available' = triggerFor(is_available, bookings, after, id)
  /\ UNCHANGED <<now, nextId, walletVars, wallet_transactions, topup, screenVars>>
  /\ UNCHANGED otherScreens

\* ------------------------------------------------------------------ Next

\* The wallet alone, used from every device.
NextLedger ==
  \/ \E d \in Devices, supaOk \in BOOLEAN, asOk \in BOOLEAN :
       refreshBalance(d, supaOk, asOk)
  \/ \E d \in Devices, amount \in AddAmounts : addFunds(d, amount)
  \/ \E d \in Devices, amount \in DeductAmounts : deductFundsCall(d, amount)
  \/ \E d \in Devices, supaOk \in BOOLEAN, asOk1 \in BOOLEAN, asOk2 \in BOOLEAN :
       saveBalanceToStorage(d, supaOk, asOk1, asOk2)
  \/ \E d \in Devices, supaOk \in BOOLEAN, asOk \in BOOLEAN :
       revertBalance(d, supaOk, asOk)

SpecLedger == Init /\ [][NextLedger]_vars

\* The wallet alone with every Supabase and AsyncStorage call succeeding.
NextLedgerOk ==
  \/ \E d \in Devices : refreshBalance(d, TRUE, TRUE)
  \/ \E d \in Devices, amount \in LedgerAmounts : addFunds(d, amount)
  \/ \E d \in Devices, amount \in LedgerAmounts : deductFundsCall(d, amount)
  \/ \E d \in Devices : saveBalanceToStorage(d, TRUE, TRUE, TRUE)

SpecLedgerOk == Init /\ [][NextLedgerOk]_vars

\* The wallet and the payment flow on spot X of the devices of Payers, with
\* the clock at rest.
NextWallet ==
  \/ \E d \in Payers, supaOk \in BOOLEAN, asOk \in BOOLEAN :
       refreshBalance(d, supaOk, asOk)
  \/ \E d \in Payers, amount \in AddAmounts : addFunds(d, amount)
  \/ \E d \in Payers, supaOk \in BOOLEAN, asOk1 \in BOOLEAN, asOk2 \in BOOLEAN :
       saveBalanceToStorage(d, supaOk, asOk1, asOk2)
  \/ \E d \in Payers, supaOk \in BOOLEAN, asOk \in BOOLEAN :
       revertBalance(d, supaOk, asOk)
  \/ \E d \in Payers : showPaymentModal(d, "X")
  \/ \E d \in Payers : closePaymentModal(d)
  \/ \E d \in Payers, start \in WalletStarts, useWallet \in BOOLEAN,
        cardOk \in BOOLEAN :
       \E end \in EndTimes(start) :
         processPayment(d, start, end, useWallet, cardOk)
  \/ \E d \in Payers, number \in CardNumbers : cardPayment(d, FALSE, number)
  \/ \E d \in Payers, insOk \in BOOLEAN : insertBooking(d, insOk)

SpecWallet == Init /\ [][NextWallet]_vars

\* The payment modal and the total it shows for the window picked.
NextPrice ==
  \/ \E d \in Devices : showPaymentModal(d, "X")
  \/ \E d \in Devices : closePaymentModal(d)
  \/ \E d \in Devices, start \in StartTimes :
       \E end \in EndTimes(start) : renderTotal(d, start, end)

SpecPrice == Init /\ [][NextPrice]_vars

\* Booking on spot X from every device, the clock and the spot flags; the
\* wallet is left at its initial balance.
NextBooking ==
  \/ Tick
  \/ \E d \in Devices : fetchSpots(d)
  \/ \E d \in Devices : showPaymentModal(d, "X")
  \/ \E d \in Devices : closePaymentModal(d)
  \/ \E d \in Devices, start \in StartTimes, useWallet \in BOOLEAN,
        cardOk \in BOOLEAN :
       \E end \in EndTimes(start) :
         processPayment(d, start, end, useWallet, cardOk)
  \/ \E d \in Devices, number \in CardNumbers : cardPayment(d, FALSE, number)
  \/ \E d \in Devices, insOk \in BOOLEAN : insertBooking(d, insOk)

SpecBooking == Init /\ [][NextBooking]_vars

\* One-hour bookings made by card from the devices of Payers, and the
\* bookings screen of every device (cancels from all of them, deletions from
\* the other devices); the wallet is left at its initial balance.
NextCancel ==
  \/ Tick
  \/ \E d \in Payers : showPaymentModal(d, "X")
  \/ \E d \in Payers, start \in StartTimes :
       processPayment(d, start, start + HourTicks, FALSE, TRUE)
  \/ \E d \in Payers, number \in CardNumbers : cardPayment(d, FALSE, number)
  \/ \E d \in Payers : insertBooking(d, TRUE)
  \/ \E d \in Devices : fetchBookings(d)
  \/ \E d \in Devices, id \in 1..MaxAttempts : cancelBooking(d, id)
  \/ \E d \in Devices : dismissDialog(d)
  \/ \E d \in Devices, updOk \in BOOLEAN : handleCancellation(d, updOk)
  \/ \E d \in Devices \ Payers, id \in 1..MaxAttempts :
       handleDeleteBooking(d, id)
  \/ \E d \in Devices \ Payers, outcome \in DeleteOutcomes :
       deleteBooking(d, outcome)

SpecCancel == Init /\ [][NextCancel]_vars

\* The same, with the devices and the clock never stopping while a step is
\* possible. Nothing in the client or the schema runs on a timer, so no
\* stronger fairness is due to any single operation.
SpecExpiry == SpecCancel /\ WF_vars(NextCancel)

\* Bookings paid from the wallet and canceled, on one device.
NextCancelWallet ==
  \/ Tick
  \/ \E d \in Payers, amount \in AddAmounts : addFunds(d, amount)
  \/ \E d \in Payers : saveBalanceToStorage(d, TRUE, TRUE, TRUE)
  \/ \E d \in Payers : showPaymentModal(d, "X")
  \/ \E d \in Payers, start \in StartTimes :
       \E end \in EndTimes(start) : processPayment(d, start, end, TRUE, TRUE)
  \/ \E d \in Payers : insertBooking(d, TRUE)
  \/ \E d \in Payers : fetchBookings(d)
  \/ \E d \in Payers, id \in 1..MaxAttempts : cancelBooking(d, id)
  \/ \E d \in Payers : dismissDialog(d)
  \/ \E d \in Payers, updOk \in BOOLEAN : handleCancellation(d, updOk)

SpecCancelWallet == Init /\ [][NextCancelWallet]_vars

\* The bookings table and its trigger under statements of any client.
NextSql ==
  \/ Tick
  \/ \E spot \in Spots, start \in SqlTimes, status \in booking_status :
       \E end \in {t \in SqlTimes : start < t} :
         sqlInsert(spot, start, end, status)
  \/ \E id \in SqlIds, status \in booking_status : sqlUpdate(id, status)
  \/ \E id \in SqlIds : sqlDelete(id)

SpecSql == Init /\ [][NextSql]_vars

\* The top-up screen of the devices of Payers, with failing stores.
NextTopUp ==
  \/ \E d \in Payers, amount \in TopUpAmounts, save \in BOOLEAN,
        cardOk \in BOOLEAN : handleTopUp(d, amount, save, cardOk)
  \/ \E d \in Payers, number \in CardNumbers, supaOk \in BOOLEAN :
       saveCard(d, number, supaOk)
  \/ \E d \in Payers : topUpCharge(d)
  \/ \E d \in Payers, supaOk \in BOOLEAN, asOk2 \in BOOLEAN :
       saveBalanceToStorage(d, supaOk, TRUE, asOk2)
  \/ \E d \in Payers : revertBalance(d, TRUE, TRUE)

SpecTopUp == Init /\ [][NextTopUp]_vars

\* Cards saved from the payment modal on one device and from the top-up
\* screen on another.
NextCards ==
  \/ \E d \in Devices \ Payers : showPaymentModal(d, "X")
  \/ \E d \in Devices \ Payers, start \in WalletStarts, cardOk \in BOOLEAN :
       processPayment(d, start, start + HourTicks, FALSE, cardOk)
  \/ \E d \in Devices \ Payers, save \in BOOLEAN, number \in CardNumbers :
       cardPayment(d, save, number)
  \/ \E d \in Devices \ Payers, insOk \in BOOLEAN : insertBooking(d, insOk)
  \/ NextTopUp

SpecCards == Init /\ [][NextCards]_vars

\* Every operation from every device.
Next ==
  \/ NextLedger
  \/ NextBooking
  \/ \E d \in Devices, spot \in Spots : showPaymentModal(d, spot)
  \/ NextPrice
  \/ NextCancel
  \/ NextCards
  \/ NextSql

Spec == Init /\ [][Next]_vars

\* ================================================================ claims

\* The interval-overlap test of the specification, on the pending and
\* confirmed bookings of a spot.
Overlaps(b, spot, start, end) ==
  /\ b.spot = spot
  /\ b.status \in ActiveStatus
  /\ b.start < end
  /\ b.end > start

RECURSIVE SumAmounts(_)
SumAmounts(txns) ==
  IF txns = <<>> THEN 0 ELSE Head(txns).amount + SumAmounts(Tail(txns))

\* C1 -- No double-booking: for every spot, no two distinct pending or
\* confirmed bookings have overlapping windows.
NoDoubleBooking ==
  \A b1 \in bookings, b2 \in bookings :
    (b1.id # b2.id /\ b2.status \in ActiveStatus)
      => ~Overlaps(b1, b2.spot, b2.start, b2.end)

\* C2 -- Atomicity under race: an invocation whose window was taken, while
\* it was validating or paying, by a booking on the same spot does not end
\* in success (it is to fail with SpotUnavailable), inserts nothing, and has
\* its wallet balance back.
RaceLoserFails ==
  [][\A d \in Devices :
       (/\ pay[d].pc = "insert"
        /\ pay'[d].pc = "idle"
        /\ \E b \in bookings :
             b.id >= pay[d].since
               /\ Overlaps(b, pay[d].spot, pay[d].start, pay[d].end))
       => /\ pay'[d].result # "Success"
          /\ bookings' = bookings
          /\ (pay[d].useWallet => balance'[d] = pay[d].balBefore)]_vars

\* C3 -- Wallet calls are serialized and applied exactly once: when no
\* call is in flight, the persisted balance is the initial balance (0) plus
\* the credits minus the debits of the calls that returned true.
WalletSerialized ==
  (\A d \in Devices : wop[d].pc = "idle") => wallet_balance = settled

\* C4 -- Non-negative balance: the in-memory and the persisted balances are
\* never negative, and a deductFunds call for more than the current balance
\* returns false and changes no balance.
NonNegativeBalance ==
  /\ [](/\ wallet_balance >= 0
        /\ \A d \in Devices :
             /\ balance[d] >= 0
             /\ asyncStorage[d] = NoValue \/ asyncStorage[d] >= 0)
  /\ [][\A d \in Devices :
          (/\ wop[d].pc = "idle"
           /\ wop'[d] # wop[d]
           /\ wop'[d].kind = "deduct"
           /\ wop'[d].amount > balance[d])
          => /\ wop'[d].pc = "idle"
             /\ wop'[d].ret = "false"
             /\ UNCHANGED <<balance, wallet_balance, asyncStorage>>]_vars

\* C4 witness: a deductFunds call for more than the balance was turned down.
DeductTurnedDown ==
  \E d \in Devices :
    /\ wop[d].pc = "idle"
    /\ wop[d].kind = "deduct"
    /\ wop[d].ret = "false"
    /\ wop[d].amount > balance[d]
    /\ balance[d] > 0

\* C5 -- Balance conservation: the wallet balance equals the signed sum of
\* the user's recorded wallet transactions.
BalanceConservation ==
  wallet_balance = SumAmounts(wallet_transactions)

\* C6 -- Availability always reflects active bookings: a spot's flag is true
\* iff no pending or confirmed booking of the spot covers the current
\* instant.
AvailabilityDerived ==
  \A sp \in Spots :
    is_available[sp] <=>
      ~ \E b \in bookings : /\ b.spot = sp
                            /\ b.status \in ActiveStatus
                            /\ b.start <= now
                            /\ now < b.end

\* C7 -- A request whose window overlaps a pending or confirmed booking on
\* the same spot is turned down before any payment is attempted.
OverlapRejected ==
  [][\A d \in Devices :
       (pay[d].pc = "idle" /\ pay'[d].pc # "idle")
       => ~ \E b \in bookings :
              Overlaps(b, pay'[d].spot, pay'[d].start, pay'[d].end)]_vars

\* C8 -- Window validation: a request goes on to payment only if end >
\* start, end - start >= 1 hour and start >= the next whole hour after now.
WindowValidated ==
  [][\A d \in Devices :
       (pay[d].pc = "idle" /\ pay'[d].pc # "idle")
       => /\ pay'[d].end > pay'[d].start
          /\ pay'[d].end - pay'[d].start >= HourTicks
          /\ pay'[d].start >= getNextHour(now)]_vars

\* C9 -- Wallet payment with insufficient funds: a request paid from the
\* wallet goes on only as a wallet debit of a price the balance covers, never
\* as a card charge; and a request that is turned down inserts no booking and
\* changes neither a spot flag nor a balance.
ShortWalletFails ==
  [][\A d \in Devices :
       (pay[d].pc = "idle" /\ pay'[d] # pay[d])
       => /\ (pay'[d].pc # "idle" /\ pay'[d].useWallet)
               => /\ pay'[d].pc = "deduct"
                  /\ pay'[d].amount <= balance[d]
          /\ pay'[d].pc = "idle"
               => /\ pay'[d].result # "Success"
                  /\ UNCHANGED <<bookings, is_available, balance,
                                 wallet_balance>>]_vars

\* C9 witness: a wallet payment was turned down for insufficient balance.
ShortWalletSeen ==
  \E d \in Devices :
    /\ pay[d].result = "InsufficientBalance"
    /\ balance[d] < basePrice

RefundOnInsertFailure ==
  [][\A d \in Devices :
       (/\ pay[d].pc = "insert"
        /\ pay[d].useWallet
        /\ pay'[d].pc = "idle"
        /\ pay'[d].result # "Success")
       => /\ bookings' = bookings
          /\ balance'[d] = pay[d].balBefore]_vars

\* C12 -- Price = ceil(hours) * 1: for every window with end > start the
\* total is the number n of started hours, n - 1 hours < end - start <= n
\* hours.
PriceIsStartedHours ==
  \A d \in Devices :
    quote[d].end > quote[d].start
      => \E n \in 1..(MaxTime + MaxLen) :
           /\ quote[d].total = n
           /\ (n - 1) * HourTicks < quote[d].end - quote[d].start
           /\ quote[d].end - quote[d].start <= n * HourTicks

\* C12 witness: a window of one hour and a half was priced (2), and a window
\* of one whole hour was (1).
FractionPriced ==
  /\ \E d \in Devices : /\ quote[d].end - quote[d].start > HourTicks
                        /\ (quote[d].end - quote[d].start) % HourTicks # 0
                        /\ quote[d].total = 2
  /\ \E d \in Devices : /\ quote[d].end - quote[d].start = HourTicks
                        /\ quote[d].total = 1

\* C13 -- Cancellation policy: a booking's status changes to canceled only
\* if, at the instant it is written, the status is confirmed and the start
\* is at least 2 hours away.
CancelOnlyWithNotice ==
  [][\A b \in bookings, c \in bookings' :
       (c.id = b.id /\ b.status # "canceled" /\ c.status = "canceled")
       => /\ b.status = "confirmed"
          /\ b.start - now >= 2 * HourTicks]_vars

\* C14 -- Cancellation does not touch the wallet: a step of a cancel (the
\* policy check, the confirmation, its dismissal, the update or its failure)
\* leaves the in-memory, stored and persisted balances as they were.
CancelLeavesWallet ==
  [][\A d \in Devices :
       (dialog'[d] # dialog[d]
          /\ (dialog[d].kind = "cancel" \/ dialog'[d].kind = "cancel"
                \/ dialog'[d].alert = "CannotCancel"))
       => UNCHANGED <<balance, wallet_balance, asyncStorage>>]_vars

\* C14 witness: a booking paid from the wallet was canceled, and the balance
\* is still short of what was added.
PaidBookingCanceled ==
  \E d \in Devices :
    /\ dialog[d].alert = "Success"
    /\ pay[d].result = "Success" /\ pay[d].useWallet
    /\ \A b \in bookings : b.status = "canceled"
    /\ bookings # {}
    /\ wallet_balance < MaxBalance
    /\ balance[d] = wallet_balance

\* C15 -- Cancellation releases the slot: a canceled booking does not count
\* in the availability check, so its own window is reported available iff no
\* other pending or confirmed booking of the spot overlaps it.
CanceledSlotReleased ==
  \A b \in bookings :
    b.status = "canceled"
      => (check_spot_availability(bookings, b.spot, b.start, b.end)
            <=> ~ \E o \in bookings :
                    o.id # b.id /\ Overlaps(o, b.spot, b.start, b.end))

\* C15 witness: a cancel succeeded and the window of the canceled booking is
\* reported available.
ReleasedSlotSeen ==
  \E d \in Devices, b \in bookings :
    /\ dialog[d].alert = "Success"
    /\ b.status = "canceled"
    /\ check_spot_availability(bookings, b.spot, b.start, b.end)

\* C16 -- Terminal states are absorbing: a row whose status is completed or
\* canceled keeps that status in every step that keeps the row.
TerminalAbsorbing ==
  [][\A b \in bookings, c \in bookings' :
       (c.id = b.id /\ b.status \in {"completed", "canceled"})
       => c.status = b.status]_vars

\* C16 witness: the only booking ever made was canceled from both devices,
\* the second time from a local copy that still showed it confirmed.
CanceledTwice ==
  /\ nextId = 2
  /\ \A d \in Devices : dialog[d].alert = "Success"
  /\ \E b \in bookings : b.status = "canceled"

\* C17 -- Deletion only of terminal bookings: a row leaves the table only
\* when its status is completed or canceled, and a delete request goes on to
\* its confirmation only for a booking whose row is not pending or confirmed.
DeleteOnlyTerminal ==
  [][/\ \A b \in bookings :
          (~ \E c \in bookings' : c.id = b.id)
            => b.status \in {"completed", "canceled"}
     /\ \A d \in Devices :
          (dialog[d].kind = "none" /\ dialog'[d].kind = "delete")
            => /\ bookings' = bookings
               /\ ~ \E b \in bookings :
                      /\ b.id = dialog'[d].id
                      /\ b.status \in {"pending", "confirmed"}]_vars

\* C17 witness: a canceled booking was deleted from the table while another
\* booking is still confirmed.
TerminalRowDeleted ==
  /\ Cardinality(bookings) < nextId - 1
  /\ \E d \in Devices : dialog[d].alert = "Deleted"
  /\ \E b \in bookings : b.status = "confirmed"

\* C18 -- Expiry: every booking with status confirmed whose end time has
\* passed eventually stops being confirmed (it is to become completed).
ExpiredCompleted ==
  \A i \in 1..MaxAttempts :
    (\E b \in bookings : b.id = i /\ b.status = "confirmed" /\ b.end <= now)
      ~> (~ \E b \in bookings : b.id = i /\ b.status = "confirmed")

\* C20 -- No saved payment method record, in table saved_cards or in the
\* SecureStore entry, holds the full card number or the CVV.
NoCardNumberStored ==
  /\ \A row \in saved_cards : DOMAIN row \cap {"number", "cvv"} = {}
  /\ \A d \in Devices : \A i \in 1..Len(secureStore[d]) :
       DOMAIN secureStore[d][i] \cap {"number", "cvv"} = {}

\* C21 -- Success means durable: addFunds or deductFunds returns true only
\* if the balance it computed was committed to users.wallet_balance.
SuccessIsDurable ==
  [][\A d \in Devices :
       (wop[d].pc = "save" /\ wop'[d].pc = "idle" /\ wop'[d].ret = "true")
       => wallet_balance' = wop[d].newBalance]_vars

AvailabilityAgrees ==
  \A b \in bookings : \A cs \in SqlTimes, ce \in SqlTimes :
    (b.status \in ActiveStatus /\ b.start < b.end /\ cs < ce)
    => (~ check_spot_availability({b}, b.spot, cs, ce)
          <=> (b.start < ce /\ b.end > cs))

\* On the whole table: a confirmed booking of X ends where one free window
\* starts and starts where another ends, a window inside it conflicts, and
\* the other row of X is canceled.
BoundaryWindowsFree ==
  \E b \in bookings, c \in bookings :
    /\ b.spot = "X" /\ b.status = "confirmed"
    /\ c.spot = "X" /\ c.status = "canceled"
    /\ b.start > 0 /\ b.end < MaxTime
    /\ check_spot_availability(bookings, "X", b.end, MaxTime)
    /\ check_spot_availability(bookings, "X", 0, b.start)
    /\ ~ check_spot_availability(bookings, "X", b.start, b.end)
    /\ ~ check_spot_availability(bookings, "X", 0, MaxTime)

\* The spots with a row that a step inserts, updates or deletes.
ChangedSpots == {b.spot : b \in (bookings \ bookings') \cup (bookings' \ bookings)}

\* C24 -- The derived flag equals the availability check at the degenerate
\* window [now, now]: the value the trigger writes to is_available for a
\* spot equals check_spot_availability(spot, now, now).
FlagEqualsDegenerateCheck ==
  [][\A sp \in ChangedSpots :
       is_available'[sp] = check_spot_availability(bookings', sp, now, now)]_vars

\* C28 -- The availability trigger recomputes the flag on every booking
\* change: right after an insert, update or delete of a booking row of spot
\* S, is_available of S is true iff no pending or confirmed booking of S has
\* start_time <= now < end_time, and the flag of every other spot is
\* unchanged.
TriggerRecomputes ==
  [][\A sp \in Spots :
       IF sp \in ChangedSpots
         THEN is_available'[sp] =
                ~ \E b \in bookings' : /\ b.spot = sp
                                       /\ b.status \in {"pending", "confirmed"}
                                       /\ b.start <= now
                                       /\ now < b.end
         ELSE bookings' # bookings => is_available'[sp] = is_available[sp]]_vars

\* The trigger has marked X taken for a running booking while the flag of Y,
\* whose booking started since its own last change, was left as it was.
OtherSpotLeftStale ==
  \E x \in bookings, y \in bookings :
    /\ x.spot = "X" /\ x.id = 2 /\ x.status = "confirmed"
    /\ x.start >= 1 /\ x.start <= now /\ now < x.end
    /\ y.spot = "Y" /\ y.id = 1 /\ y.status = "pending"
    /\ y.start >= 1 /\ y.start <= now /\ now < y.end
    /\ ~ is_available["X"]
    /\ is_available["Y"]

\* C25 -- Payment precedes reservation: a booking row is inserted only by an
\* invocation whose payment step has reported success (deductFunds returned
\* true, or the card payment resolved); a payment that fails ends the
\* invocation with no row, and one that has not completed has inserted none.
PaymentPrecedesInsert ==
  [][/\ bookings' \ bookings # {}
          => \E d \in Devices :
               /\ pay[d].pc = "insert"
               /\ bookings' \ bookings = {bookingRow(nextId, pay[d])}
     /\ \A d \in Devices :
          /\ (pay[d].pc # "insert" /\ pay'[d].pc = "insert")
               => \/ pay[d].pc = "deduct" /\ wop[d].pc = "save"
                       /\ wop'[d].ret = "true"
                  \/ pay[d].pc = "card"
          /\ (pay[d].pc = "deduct" /\ wop[d].pc # "idle" /\ wop'[d].ret = "false")
               => pay'[d].pc = "idle" /\ bookings' = bookings]_vars

\* One attempt was paid and booked, the next one's payment failed and left
\* no second row.
FailedPaymentNoRow ==
  \E d \in Payers :
    /\ pay[d].pc = "idle"
    /\ pay[d].result = "PaymentFailed"
    /\ attempts = 2
    /\ Cardinality(bookings) = 1
    /\ nextId = 2

\* C26 -- A saved payment method is created only on explicit opt-in and only
\* as part of a payment that succeeded: a top-up that stored a card had the
\* save-card option on and ends with the funds added.
SavedOnlyOnPaidOptIn ==
  [][\A d \in Devices :
       (topup[d].pc # "idle" /\ topup'[d].pc = "idle" /\ topup[d].saved)
       => topup[d].save /\ topup'[d].result = "Successful"]_vars

\* C27 -- Revert on failed persistence: when addFunds or deductFunds returns
\* false because saving the new balance failed, the in-memory balance
\* afterwards equals the balance before the call, whatever the outcome of
\* the reload from Supabase or AsyncStorage.
RevertRestoresBalance ==
  [][\A d \in Devices :
       (wop[d].pc = "reload" /\ wop'[d].pc = "idle" /\ wop'[d].ret = "false")
       => balance'[d] = IF wop[d].kind = "add"
                          THEN wop[d].newBalance - wop[d].amount
                          ELSE wop[d].newBalance + wop[d].amount]_vars

\* C29 -- Booking is gated on the client's availability flag: the payment
\* modal is opened only for a spot whose locally held is_available is true,
\* and a payment is started only from the open modal, so a spot flagged
\* unavailable cannot be booked for any window.
GatedOnLocalFlag ==
  [][\A d \in Devices :
       /\ (modal'[d] # modal[d] /\ modal'[d] # NoSpot) => spots[d][modal'[d]]
       /\ (pay[d].pc = "idle" /\ pay'[d].pc # "idle")
            => modal[d] # NoSpot /\ pay'[d].spot = modal[d]]_vars

\* A device holds X as unavailable with no modal open, although a later
\* one-hour window on X overlaps no booking.
FreeWindowNotOffered ==
  \E d \in Devices :
    /\ ~spots[d]["X"]
    /\ modal[d] = NoSpot
    /\ pay[d].pc = "idle"
    /\ \E start \in StartTimes :
         /\ start >= getNextHour(now)
         /\ check_spot_availability(bookings, "X", start, start + HourTicks)

\* C30 -- Single in-flight payment per screen: the processing flag is true
\* exactly while a processPayment invocation is past time validation and
\* not yet finished, so that the pay button cannot start a second one.
ProcessingWhileInFlight ==
  \A d \in Devices : processing[d] <=> pay[d].pc # "idle"
====
